---- MODULE Spec2Model ----
(***************************************************************************)
(* Student Performance Analytics dashboard (SPADashboard.py).              *)
(*                                                                         *)
(* The module-level script loads the CSV, derives columns and projects     *)
(* the ten-column table selected_data.  The Dash callback update_plots     *)
(* filters selected_data by gender, groups it, calls generate_figures and  *)
(* returns seven figures, which Dash writes to the seven graph regions.    *)
(*                                                                         *)
(* Data frames are [columns, rows]: rows is a sequence of records whose    *)
(* fields are the columns.  A data frame is a Python object: frames maps   *)
(* an object to its content and filtered_data holds a reference, so that   *)
(* an in-place assignment made through one name is seen through every name *)
(* bound to the same object.  Means are exact fractions [num, den].        *)
(* plotly.express is opaque: a figure is its kind and the table handed to  *)
(* the px call, and a px call is taken to return for every table; the only *)
(* exception modelled is pd.cut's on an empty series.  The installed       *)
(* pandas decides groupby's default for `observed` (False before 3.0, True *)
(* from 3.0 on): observed_default is chosen at start and never changes.    *)
(***************************************************************************)
EXTENDS Integers, Sequences, FiniteSets, TLC

VARIABLES
    csv,              \* rows of student-por.csv as read by pd.read_csv
    observed_default, \* groupby's default for `observed` in the installed pandas
    data,             \* module global `data` after the derivations
    frames,           \* object store: "selected_data" and the callback's copy
    cleaned_csv,      \* the file student_alcohol_cleaned.csv
    selected_gender,  \* the callback's argument
    filtered_data,    \* the callback's local: a reference into frames
    grouped_data,     \* the callback's local
    figs,             \* the callback's local: generate_figures' result
    outputs,          \* the seven dcc.Graph 'figure' properties in the page
    pc,               \* "startup", "idle", or the callback's position
    result            \* how the last finished callback ended

vars == <<csv, observed_default, data, frames, cleaned_csv, selected_gender, filtered_data,
          grouped_data, figs, outputs, pc, result>>

----------------------------------------------------------------------------
(* Bounds and program constants *)

MaxRows == 2

MaxGradeRows == 2

MaxGrade == 20

GpaScale == 5

NBins == 3

\* Python's None, for a name bound to no string.
None == "None"

\* A missing value of a string or categorical column.
NaN == "NaN"

\* A missing value of a float column: the fraction with denominator 0.
NaNFloat == [num |-> 0, den |-> 0]

\* A name bound to no data frame.
NoFrame == [columns |-> <<>>, rows |-> <<>>]

----------------------------------------------------------------------------
(* Generic helpers *)

Range(s) == {s[i] : i \in 1..Len(s)}

IndexOf(s, v) == CHOOSE i \in 1..Len(s) : s[i] = v

RECURSIVE SumSeq(_)
SumSeq(s) == IF s = <<>> THEN 0 ELSE Head(s) + SumSeq(Tail(s))

RECURSIVE Gcd(_, _)
Gcd(a, b) == IF b = 0 THEN a ELSE Gcd(b, a % b)

MinOf(S) == CHOOSE x \in S : \A y \in S : x <= y

MaxOf(S) == CHOOSE x \in S : \A y \in S : x >= y

Column(rows, col) == [i \in 1..Len(rows) |-> rows[i][col]]

\* Series.mean(): NaN for an empty series, otherwise sum / count.
Mean(vals) ==
    IF Len(vals) = 0 THEN NaNFloat
    ELSE LET s == SumSeq(vals)
             n == Len(vals)
             g == Gcd(s, n)
         IN  [num |-> s \div g, den |-> n \div g]

----------------------------------------------------------------------------
(* The CSV file *)

\* (internet, Dalc, Walc, G3, absences): three kinds of student.
Profiles ==
    << [internet |-> "yes", Dalc |-> 1, Walc |-> 1, G3 |-> 10, absences |-> 0],
       [internet |-> "no",  Dalc |-> 2, Walc |-> 3, G3 |-> 15, absences |-> 4],
       [internet |-> "yes", Dalc |-> 5, Walc |-> 4, G3 |-> 20, absences |-> 2] >>

RawRow(sex, code, p) ==
    [sex |-> sex, studytime |-> code, internet |-> p.internet, higher |-> "yes",
     failures |-> 0, freetime |-> 3, traveltime |-> 1,
     Dalc |-> p.Dalc, Walc |-> p.Walc, absences |-> p.absences, G3 |-> p.G3]

\* The rows a file is made of: students as the data set describes them,
\* students with a studytime code the mapping does not have, and a student
\* whose sex is neither F nor M.
RawRows ==
    {RawRow(s, c, p) : s \in {"F", "M"}, c \in {1, 4}, p \in Range(Profiles)}
        \cup {RawRow(s, 5, Profiles[1]) : s \in {"F", "M"}}
        \cup {RawRow("O", 1, Profiles[1])}

RawColumns ==
    <<"sex", "studytime", "internet", "higher", "failures", "freetime",
      "traveltime", "Dalc", "Walc", "absences", "G3">>

BoundedSeq(S, n) == UNION {[1..k -> S] : k \in 0..n}

\* Students with every final grade of the 0..20 scale.
GradeRows ==
    {[RawRow(s, 1, Profiles[1]) EXCEPT !.G3 = g] :
        s \in {"F", "M"}, g \in 0..MaxGrade}

----------------------------------------------------------------------------
(* Column Deriver and Dataset Projector: the module-level script *)

StudytimeCategories == <<"<2 hours", "2-5 hours", "5-10 hours", ">10 hours">>

\* Series.map(dict): a value that is no key of the dict becomes NaN, and
\* pd.Categorical keeps NaN as a missing value.
StudytimeMap(code) ==
    CASE code = 1 -> "<2 hours"
      [] code = 2 -> "2-5 hours"
      [] code = 3 -> "5-10 hours"
      [] code = 4 -> ">10 hours"
      [] OTHER -> NaN

Max2(a, b) == IF a >= b THEN a ELSE b

ConsumptionLevel(r) == Max2(r.Dalc, r.Walc)

\* The grade left on its 0..20 scale.
GpaUnscaled(g3) == g3

Gpa(g3) == g3 * GpaScale

\* Series.replace(dict): other values pass through.
SexReplace(s) ==
    CASE s = "F" -> "Female"
      [] s = "M" -> "Male"
      [] OTHER -> s

DerivedColumns ==
    RawColumns \o <<"consumptionlevel", "GPA", "higher education">>

DeriveRow(r) ==
    [c \in Range(DerivedColumns) |->
        CASE c = "studytime" -> StudytimeMap(r.studytime)
          [] c = "consumptionlevel" -> ConsumptionLevel(r)
          [] c = "GPA" -> Gpa(r.G3)
          [] c = "higher education" -> r.higher
          [] c = "sex" -> SexReplace(r.sex)
          [] OTHER -> r[c]]

Derive(rows) ==
    [columns |-> DerivedColumns,
     rows |-> [i \in 1..Len(rows) |-> DeriveRow(rows[i])]]

SelectedColumns ==
    <<"sex", "studytime", "internet", "higher education", "failures",
      "freetime", "traveltime", "consumptionlevel", "absences", "GPA">>

ProjectRow(r, cols) == [c \in Range(cols) |-> r[c]]

\* data.loc[:, [...]].copy()
Project(df, cols) ==
    [columns |-> cols,
     rows |-> [i \in 1..Len(df.rows) |-> ProjectRow(df.rows[i], cols)]]

----------------------------------------------------------------------------
(* pandas: groupby(...).mean(), sort_values, pd.cut, column assignment *)

CategoricalColumns == {"studytime"}

\* Lexicographic order of the object-dtype values that occur.
LexOrder == <<"F", "Female", "M", "Male", "O", "no", "yes">>

ColRank(col, v) ==
    IF col \in CategoricalColumns
    THEN (IF v = NaN THEN Len(StudytimeCategories) + 1
          ELSE IndexOf(StudytimeCategories, v))
    ELSE IndexOf(LexOrder, v)

KeyOf(r, keys) == [i \in 1..Len(keys) |-> r[keys[i]]]

HasNaN(r, keys) == \E i \in 1..Len(keys) : r[keys[i]] = NaN

KeyLess(keys, a, b) ==
    \E i \in 1..Len(keys) :
        /\ \A j \in 1..(i - 1) : a[j] = b[j]
        /\ ColRank(keys[i], a[i]) < ColRank(keys[i], b[i])

RECURSIVE SortKeys(_, _)
SortKeys(keys, S) ==
    IF S = {} THEN <<>>
    ELSE LET m == CHOOSE k \in S : \A j \in S \ {k} : KeyLess(keys, k, j)
         IN  <<m>> \o SortKeys(keys, S \ {m})

\* The group keys of the result.  dropna=True: a row with a missing key is in
\* no group.  observed=True: the combinations that occur.  observed=False with
\* a categorical key: every category, crossed with the values that occur in
\* the other keys.
GroupKeySet(rows, keys, observed) ==
    LET live == {i \in 1..Len(rows) : ~HasNaN(rows[i], keys)}
        vals(k) == IF k \in CategoricalColumns
                   THEN Range(StudytimeCategories)
                   ELSE {rows[i][k] : i \in live}
        all == UNION {vals(keys[i]) : i \in 1..Len(keys)}
    IN  IF observed \/ Range(keys) \cap CategoricalColumns = {}
        THEN {KeyOf(rows[i], keys) : i \in live}
        ELSE {t \in [1..Len(keys) -> all] :
                 \A i \in 1..Len(keys) : t[i] \in vals(keys[i])}

GroupMembers(rows, keys, key) ==
    SelectSeq(rows, LAMBDA r : KeyOf(r, keys) = key)

\* df.groupby(keys, observed=observed).agg({c: 'mean' ...}).reset_index():
\* one row per group key, sorted by key, key columns first.
GroupByMean(rows, keys, aggs, observed) ==
    LET ks == SortKeys(keys, GroupKeySet(rows, keys, observed))
        cols == keys \o aggs
        row(key) ==
            [c \in Range(cols) |->
                IF c \in Range(keys) THEN key[IndexOf(keys, c)]
                ELSE Mean(Column(GroupMembers(rows, keys, key), c))]
    IN  [columns |-> cols, rows |-> [i \in 1..Len(ks) |-> row(ks[i])]]

\* pd.Categorical(values, categories=...): a value outside the categories
\* becomes NaN.
Recategorize(df, col) ==
    [df EXCEPT !.rows =
        [i \in 1..Len(df.rows) |->
            [df.rows[i] EXCEPT ![col] =
                IF @ \in Range(StudytimeCategories) THEN @ ELSE NaN]]]

RECURSIVE InsertSorted(_, _, _)
InsertSorted(col, r, s) ==
    IF s = <<>> THEN <<r>>
    ELSE IF ColRank(col, r[col]) < ColRank(col, Head(s)[col])
         THEN <<r>> \o s
         ELSE <<Head(s)>> \o InsertSorted(col, r, Tail(s))

RECURSIVE SortRows(_, _)
SortRows(col, rows) ==
    IF rows = <<>> THEN <<>>
    ELSE InsertSorted(col, rows[Len(rows)], SortRows(col, SubSeq(rows, 1, Len(rows) - 1)))

\* df.sort_values(col): ascending in the category order, missing values last,
\* ties in their original order.
SortValues(df, col) == [df EXCEPT !.rows = SortRows(col, df.rows)]

ConsumptionLabels == <<"Low", "Medium", "High">>

\* The edges without the lowering of the first one: the lowest value is in no bin.
CutEdgesLowestExcluded(mn, mx) ==
    [i \in 0..NBins |-> 1000 * NBins * mn + i * 1000 * (mx - mn)]

\* pd.cut(x, bins=3): the bin edges, times 1000 * NBins so that they are
\* integers.  Equal-width bins over [min(x), max(x)] of the series it is
\* given; the first edge is lowered by 0.1% of the range.  When min = max the
\* range is first widened by 0.1% of |min| on both sides.
CutEdges(mn, mx) ==
    LET k == 1000 * NBins
        w == IF mn # 0 THEN NBins * (IF mn < 0 THEN -mn ELSE mn) ELSE NBins
    IN  IF mn = mx
        THEN [i \in 0..NBins |-> (k * mn - w) + i * ((2 * w) \div NBins)]
        ELSE [i \in 0..NBins |->
                IF i = 0 THEN k * mn - NBins * (mx - mn)
                ELSE k * mn + i * 1000 * (mx - mn)]

\* right=True: bin i is (edge[i-1], edge[i]]; a value in no bin is NaN.
CutLabel(v, mn, mx) ==
    LET e == CutEdges(mn, mx)
        x == 1000 * NBins * v
        hit == {i \in 1..NBins : e[i - 1] < x /\ x <= e[i]}
    IN  IF hit = {} THEN NaN ELSE ConsumptionLabels[CHOOSE i \in hit : TRUE]

CutSeries(vals) ==
    LET mn == MinOf(Range(vals))
        mx == MaxOf(Range(vals))
    IN  [i \in 1..Len(vals) |-> CutLabel(vals[i], mn, mx)]

\* df[col] = values: replaces the column when df has it, appends it otherwise.
AssignColumn(df, col, vals) ==
    [columns |-> IF col \in Range(df.columns) THEN df.columns
                 ELSE Append(df.columns, col),
     rows |-> [i \in 1..Len(df.rows) |->
                 [c \in Range(df.columns) \cup {col} |->
                     IF c = col THEN vals[i] ELSE df.rows[i][c]]]]

----------------------------------------------------------------------------
(* generate_figures *)

FigureKeys == <<"sunburst", "scatter", "box", "line", "bar", "hist", "violin">>

NoFigure == [kind |-> None, data |-> NoFrame]

\* A plotly figure: which px call made it and the table the call was given.
Figure(kind, df) == [kind |-> kind, data |-> df]

\* line 68
GroupedSun(df) == GroupByMean(df.rows, <<"studytime", "internet">>, <<"GPA">>, TRUE)

\* lines 112-117: the column assigned into the caller's data frame.
ConsumptionLevelColumn == "consumption_level"

\* The assignment followed by an in-place sort of the caller's frame.
WithConsumptionLevelSortedInPlace(df) ==
    SortValues(
        AssignColumn(df, ConsumptionLevelColumn,
                     CutSeries(Column(df.rows, "consumptionlevel"))),
        "studytime")

WithConsumptionLevel(df) ==
    AssignColumn(df, ConsumptionLevelColumn, CutSeries(Column(df.rows, "consumptionlevel")))

\* lines 141-148: groupby('studytime') names no `observed`, so the installed
\* pandas' default applies.
StudytimeGpa(df, observed) ==
    SortValues(
        Recategorize(GroupByMean(df.rows, <<"studytime">>, <<"GPA">>, observed),
                     "studytime"),
        "studytime")

\* line 168
GenderGroups(df) ==
    GroupByMean(df.rows, <<"sex">>, <<"consumptionlevel", "GPA">>, FALSE)

\* pd.cut raises ValueError("Cannot cut empty array") on an empty series.
GenerateRaises(df) == Len(df.rows) = 0

\* The dictionary returned at lines 228-236; `binned` is filtered_data after
\* the assignment of line 112.
FiguresDict(df, binned, grouped, observed) ==
    [k \in Range(FigureKeys) |->
        CASE k = "sunburst" -> Figure("sunburst", GroupedSun(df))
          [] k = "scatter" -> Figure("scatter", grouped)
          [] k = "box" -> Figure("box", binned)
          [] k = "line" -> Figure("line", StudytimeGpa(binned, observed))
          [] k = "bar" -> Figure("bar", GenderGroups(binned))
          [] k = "hist" -> Figure("hist", binned)
          [] k = "violin" -> Figure("violin", binned)]

----------------------------------------------------------------------------
(* update_plots and the Dash wiring *)

\* The dropdown's three options and a value no option has (a hand-made request).
DropdownOptions == {"All", "Male", "Female"}

Selections == DropdownOptions \cup {"O"}

\* The Output list of the callback decorator, lines 313-321.
CallbackOutputs ==
    <<"sunburst-plot", "scatter-plot", "box-plot", "line-chart", "bar-chart",
      "hist-plot", "violin-plot">>

\* The filter without its 'All' branch.
FilterRowsNoAllBranch(df, sel) ==
    [df EXCEPT !.rows = SelectSeq(df.rows, LAMBDA r : r.sex = sel)]

\* lines 334-337: the rows of the new frame.
FilterRows(df, sel) ==
    IF sel = "All" THEN df
    ELSE [df EXCEPT !.rows = SelectSeq(df.rows, LAMBDA r : r.sex = sel)]

\* The 'All' branch without .copy(): the name is bound to selected_data itself.
FilterObjectNoCopy(sel) == IF sel = "All" THEN "selected_data" ELSE "copy"

\* lines 335, 337: both branches end in .copy(), a new object.
FilterObject(sel) == "copy"

GroupKeys == <<"sex", "studytime", "internet", "higher education">>

GroupAggs == <<"consumptionlevel", "failures", "absences", "GPA">>

\* lines 340-345
GroupFiltered(df) == GroupByMean(df.rows, GroupKeys, GroupAggs, TRUE)

\* The returned tuple with box and line exchanged.
ReturnTupleSwapped(f) ==
    <<f["sunburst"], f["scatter"], f["line"], f["box"], f["bar"], f["hist"],
      f["violin"]>>

\* lines 350-351: the returned tuple, in the order of CallbackOutputs.
ReturnTuple(f) ==
    <<f["sunburst"], f["scatter"], f["box"], f["line"], f["bar"], f["hist"],
      f["violin"]>>

\* to_csv(index=False): a header line and one line of values per row, a
\* missing value written as the empty field.
ToCsv(df) ==
    [header |-> df.columns,
     lines |-> [i \in 1..Len(df.rows) |->
                  [j \in 1..Len(df.columns) |->
                      IF df.columns[j] \in CategoricalColumns
                         /\ df.rows[i][df.columns[j]] = NaN
                      THEN ""
                      ELSE df.rows[i][df.columns[j]]]]]

NoFigs == [k \in Range(FigureKeys) |-> NoFigure]

Init ==
    /\ csv \in BoundedSeq(RawRows, MaxRows)
    /\ observed_default \in BOOLEAN
    /\ data = NoFrame
    /\ frames = [o \in {"selected_data", "copy"} |-> NoFrame]
    /\ cleaned_csv = None
    /\ selected_gender = None
    /\ filtered_data = None
    /\ grouped_data = NoFrame
    /\ figs = NoFigs
    /\ outputs = [r \in Range(CallbackOutputs) |-> NoFigure]
    /\ pc = "startup"
    /\ result = None

\* lines 19-47: the module-level script.
Startup ==
    /\ pc = "startup"
    /\ data' = Derive(csv)
    /\ frames' = [frames EXCEPT !["selected_data"] = Project(data', SelectedColumns)]
    /\ cleaned_csv' = ToCsv(frames'["selected_data"])
    /\ pc' = "idle"
    /\ UNCHANGED <<csv, observed_default, selected_gender, filtered_data,
                   grouped_data, figs, outputs, result>>

\* Dash calls update_plots with the value of 'gender-filter'.
SelectionEvent(sel) ==
    /\ pc = "idle"
    /\ selected_gender' = sel
    /\ result' = None
    /\ pc' = "filter"
    /\ UNCHANGED <<csv, observed_default, data, frames, cleaned_csv,
                   filtered_data, grouped_data, figs, outputs>>

\* lines 334-337
Filter ==
    /\ pc = "filter"
    /\ filtered_data' = FilterObject(selected_gender)
    /\ frames' = [frames EXCEPT ![filtered_data'] =
                     FilterRows(frames["selected_data"], selected_gender)]
    /\ pc' = "group"
    /\ UNCHANGED <<csv, observed_default, data, cleaned_csv, selected_gender,
                   grouped_data, figs, outputs, result>>

\* lines 340-345
Group ==
    /\ pc = "group"
    /\ grouped_data' = GroupFiltered(frames[filtered_data])
    /\ pc' = "generate"
    /\ UNCHANGED <<csv, observed_default, data, frames, cleaned_csv,
                   selected_gender, filtered_data, figs, outputs, result>>

\* The callback's locals are gone when it ends.
DropLocals ==
    /\ selected_gender' = None
    /\ filtered_data' = None
    /\ grouped_data' = NoFrame
    /\ figs' = NoFigs
    /\ frames' = [frames EXCEPT !["copy"] = NoFrame]

\* line 349, generate_figures runs to its return.
Generate ==
    /\ pc = "generate"
    /\ ~GenerateRaises(frames[filtered_data])
    /\ LET binned == WithConsumptionLevel(frames[filtered_data])
       IN  /\ frames' = [frames EXCEPT ![filtered_data] = binned]
           /\ figs' = FiguresDict(frames[filtered_data], binned, grouped_data,
                                  observed_default)
    /\ pc' = "return"
    /\ UNCHANGED <<csv, observed_default, data, cleaned_csv, selected_gender,
                   filtered_data, grouped_data, outputs, result>>

\* line 349, generate_figures raises: the exception leaves update_plots and
\* Dash answers the request with an error, writing no output.
GenerateFails ==
    /\ pc = "generate"
    /\ GenerateRaises(frames[filtered_data])
    /\ DropLocals
    /\ result' = "ValueError"
    /\ pc' = "idle"
    /\ UNCHANGED <<csv, observed_default, data, cleaned_csv, outputs>>

\* lines 350-351: the tuple is returned and Dash writes its i-th member to the
\* i-th Output, all in one response.
Return ==
    /\ pc = "return"
    /\ outputs' = [r \in Range(CallbackOutputs) |->
                      ReturnTuple(figs)[IndexOf(CallbackOutputs, r)]]
    /\ DropLocals
    /\ result' = "ok"
    /\ pc' = "idle"
    /\ UNCHANGED <<csv, observed_default, data, cleaned_csv>>

Next ==
    \/ Startup
    \/ \E sel \in Selections : SelectionEvent(sel)
    \/ Filter
    \/ Group
    \/ Generate
    \/ GenerateFails
    \/ Return

Spec == Init /\ [][Next]_vars

----------------------------------------------------------------------------
(* The derivation and the filter alone, over the whole grade scale *)

InitGrades ==
    /\ csv \in BoundedSeq(GradeRows, MaxGradeRows)
    /\ observed_default = TRUE
    /\ data = NoFrame
    /\ frames = [o \in {"selected_data", "copy"} |-> NoFrame]
    /\ cleaned_csv = None
    /\ selected_gender = None
    /\ filtered_data = None
    /\ grouped_data = NoFrame
    /\ figs = NoFigs
    /\ outputs = [r \in Range(CallbackOutputs) |-> NoFigure]
    /\ pc = "startup"
    /\ result = None

NextGrades ==
    \/ Startup
    \/ \E sel \in DropdownOptions : SelectionEvent(sel)
    \/ Filter

SpecGrades == InitGrades /\ [][NextGrades]_vars

----------------------------------------------------------------------------
(* Vocabulary of the properties *)

WorkingTable == frames["selected_data"]

Started == pc # "startup"

RowIndices(rows) == 1..Len(rows)

\* The rows a selection asks for: all of them, or those of that sex.
IndicesWhere(rows, sel) ==
    IF sel = "All" THEN RowIndices(rows)
    ELSE {i \in RowIndices(rows) : rows[i].sex = sel}

\* The rows at the indices I, in the table's order.
RECURSIVE RowsAt(_, _)
RowsAt(rows, I) ==
    IF I = {} THEN <<>>
    ELSE LET m == MaxOf(I) IN Append(RowsAt(rows, I \ {m}), rows[m])

Count(rows, v) == Cardinality({i \in RowIndices(rows) : rows[i] = v})

OnlyMaleFemale(df) == \A i \in RowIndices(df.rows) : df.rows[i].sex \in {"Male", "Female"}

----------------------------------------------------------------------------
(* C1 *)

C1_Male == FilterRows(WorkingTable, "Male").rows

C1_Female == FilterRows(WorkingTable, "Female").rows

\* C1: after the filter step of update_plots the filtered table is the whole
\* working table for All and exactly the rows of the selected sex, in order,
\* for Male and Female; when only Male and Female occur, the Male and Female
\* tables share no row and together hold each row as often as the All table.
C1_FilterBySex ==
    (pc = "group" /\ selected_gender \in DropdownOptions) =>
        /\ frames[filtered_data].columns = WorkingTable.columns
        /\ frames[filtered_data].rows =
              RowsAt(WorkingTable.rows,
                     IndicesWhere(WorkingTable.rows, selected_gender))
        /\ selected_gender = "All" => frames[filtered_data] = WorkingTable
        /\ OnlyMaleFemale(WorkingTable) =>
              /\ Range(C1_Male) \cap Range(C1_Female) = {}
              /\ \A v \in Range(WorkingTable.rows) \cup Range(C1_Male)
                                                   \cup Range(C1_Female) :
                    Count(C1_Male, v) + Count(C1_Female, v)
                        = Count(FilterRows(WorkingTable, "All").rows, v)

C1_Witness ==
    /\ pc = "group"
    /\ selected_gender = "Male"
    /\ OnlyMaleFemale(WorkingTable)
    /\ Len(frames[filtered_data].rows) = 1
    /\ Len(WorkingTable.rows) = 2

----------------------------------------------------------------------------
(* C2 *)

\* C2: the grouped table has exactly one row for each distinct (sex,
\* studytime, internet, higher education) combination of the filtered table,
\* and no other row.
C2_OneRowPerCombination ==
    pc = "generate" =>
        LET f == frames[filtered_data].rows
            g == grouped_data.rows
            combos == {KeyOf(f[i], GroupKeys) : i \in RowIndices(f)}
        IN  /\ {KeyOf(g[i], GroupKeys) : i \in RowIndices(g)} = combos
            /\ Len(g) = Cardinality(combos)

----------------------------------------------------------------------------
(* C3 *)

ValidStudyCodes == {1, 2, 3, 4}

\* C3: a CSV row whose studytime code is outside {1,2,3,4} makes startup
\* fail: no working table is produced, so none holds a missing category.
C3_BadCodeFailsStartup ==
    (\E i \in RowIndices(csv) : csv[i].studytime \notin ValidStudyCodes) =>
        /\ WorkingTable = NoFrame
        /\ pc = "startup"

----------------------------------------------------------------------------
(* C4 *)

\* C4: a selection other than All, Male, Female ends in an error: the
\* callback never gets to return figures for it.
C4_OnlyEnumeratedSelections ==
    pc = "return" => selected_gender \in DropdownOptions

----------------------------------------------------------------------------
(* C5 *)

\* The chart each graph region of the layout is for (lines 272-306).
RegionKind(r) ==
    CASE r = "sunburst-plot" -> "sunburst"
      [] r = "scatter-plot" -> "scatter"
      [] r = "box-plot" -> "box"
      [] r = "line-chart" -> "line"
      [] r = "bar-chart" -> "bar"
      [] r = "hist-plot" -> "hist"
      [] r = "violin-plot" -> "violin"

Regions == Range(CallbackOutputs)

Updating == pc \in {"filter", "group", "generate", "return"}

\* What a whole run for sel puts on the page.
C5_PageFor(sel) ==
    LET f == FilterRows(WorkingTable, sel)
        d == FiguresDict(f, WithConsumptionLevel(f), GroupFiltered(f), observed_default)
    IN  [r \in Regions |-> d[RegionKind(r)]]

\* The page is blank, or every region holds a figure of its own kind.
C5_State ==
    /\ \/ \A r \in Regions : outputs[r] = NoFigure
       \/ \A r \in Regions : outputs[r].kind = RegionKind(r)
    /\ pc = "return" => DOMAIN figs = Range(FigureKeys)

C5_Step ==
    /\ outputs' # outputs =>
          /\ pc = "return" /\ pc' = "idle" /\ result' = "ok"
          /\ \A r \in Regions : outputs'[r] = figs[RegionKind(r)]
          /\ outputs' = C5_PageFor(selected_gender)
    /\ (pc = "return" /\ pc' # pc) => outputs' = C5_PageFor(selected_gender)
    /\ result' = "ValueError" => outputs' = outputs
    /\ (pc = "idle" /\ pc' # "idle") => pc' = "filter"
    /\ (Updating /\ pc' # pc) =>
          \/ pc = "filter" /\ pc' = "group"
          \/ pc = "group" /\ pc' = "generate"
          \/ pc = "generate" /\ pc' = "return"
          \/ pc = "generate" /\ pc' = "idle" /\ result' = "ValueError"
          \/ pc = "return" /\ pc' = "idle"

----------------------------------------------------------------------------
(* C6 *)

GenerateStep == pc = "generate" /\ pc' = "return"

\* C6 as stated: the call of generate_figures leaves both argument tables
\* and all other state exactly as they were.
C6_NoSideEffect ==
    [][GenerateStep =>
          /\ frames' = frames
          /\ grouped_data' = grouped_data]_vars

\* C6, amended: the call leaves the grouped table, the working table and all
\* other state as they were, and changes the filtered table only by appending
\* the column consumption_level: the columns it had keep their order and
\* every value; the returned figures are those of the two arguments.
C6_OnlyAddsBinColumn ==
    [][GenerateStep =>
          LET old == frames[filtered_data]
              new == frames'[filtered_data]
          IN  /\ grouped_data' = grouped_data
              /\ frames'["selected_data"] = frames["selected_data"]
              /\ UNCHANGED <<csv, data, cleaned_csv, outputs, selected_gender,
                             filtered_data, observed_default, result>>
              /\ new.columns = Append(old.columns, "consumption_level")
              /\ Len(new.rows) = Len(old.rows)
              /\ \A i \in RowIndices(old.rows) :
                    /\ DOMAIN new.rows[i] = Range(new.columns)
                    /\ \A c \in Range(old.columns) : new.rows[i][c] = old.rows[i][c]
              /\ figs' = FiguresDict(old, new, grouped_data, observed_default)]_vars

C6_Witness ==
    /\ pc = "return"
    /\ "consumption_level" \in Range(frames[filtered_data].columns)
    /\ "consumption_level" \notin Range(WorkingTable.columns)
    /\ Len(frames[filtered_data].rows) = 2
    /\ frames[filtered_data].rows[1].studytime = ">10 hours"
    /\ frames[filtered_data].rows[2].studytime = "<2 hours"

----------------------------------------------------------------------------
(* C7 *)

\* The working table right after startup.
StartupTable == Project(Derive(csv), SelectedColumns)

\* C7: once built, the working table keeps its ten columns, rows and values
\* through every run, and the filtered and grouped tables of a run are those
\* of its selection on the startup table, whatever runs came before.
C7_WorkingTableFixed ==
    LET st == StartupTable
    IN  /\ Started =>
              /\ WorkingTable = st
              /\ WorkingTable.columns = SelectedColumns
              /\ Len(WorkingTable.columns) = 10
        /\ pc \in {"group", "generate"} =>
              frames[filtered_data] = FilterRows(st, selected_gender)
        /\ pc = "generate" =>
              grouped_data = GroupFiltered(FilterRows(st, selected_gender))

\* A run for All after a run for another selection has finished.
C7_Witness ==
    /\ pc = "generate"
    /\ selected_gender = "All"
    /\ Len(WorkingTable.rows) = 2
    /\ \E r \in Regions : outputs[r] # NoFigure
    /\ outputs # C5_PageFor("All")

----------------------------------------------------------------------------
(* C8 *)

C8_Present(rows) == {rows[i].studytime : i \in RowIndices(rows)} \ {NaN}

C8_CategoryRows(rows, cat) == SelectSeq(rows, LAMBDA r : r.studytime = cat)

\* Sum of the GPA of the rows, for the mean written as a cross product.
C8_Total(rows) == SumSeq(Column(rows, "GPA"))

\* C8: the line chart's table has one point per studytime category that
\* occurs among the filtered rows and none for a category without rows, each
\* point's y is the mean GPA of the category's rows, and the points are in the
\* order <2 hours, 2-5 hours, 5-10 hours, >10 hours.
C8_LinePoints ==
    pc = "return" =>
        LET line == figs["line"].data.rows
            f == frames[filtered_data].rows
        IN  /\ {line[i].studytime : i \in RowIndices(line)} = C8_Present(f)
            /\ Len(line) = Cardinality(C8_Present(f))
            /\ Len(line) <= 4
            /\ \A i \in RowIndices(line) :
                  LET members == C8_CategoryRows(f, line[i].studytime)
                  IN  /\ line[i].GPA.den > 0
                      /\ line[i].GPA.num * Len(members)
                            = C8_Total(members) * line[i].GPA.den
            /\ \A i, j \in RowIndices(line) :
                  i < j => IndexOf(StudytimeCategories, line[i].studytime)
                              < IndexOf(StudytimeCategories, line[j].studytime)

----------------------------------------------------------------------------
(* C9 *)

\* C9: for a final grade G3 in 0..20 the derived GPA is G3 * 5, within 0..100
\* and monotonic in G3; the working table and the filtered table hold that
\* same value for the row.
C9_GpaScaled ==
    /\ Started =>
          /\ Len(data.rows) = Len(csv) /\ Len(WorkingTable.rows) = Len(csv)
          /\ \A i \in RowIndices(csv) :
                csv[i].G3 \in 0..MaxGrade =>
                    /\ data.rows[i].GPA = csv[i].G3 * 5
                    /\ data.rows[i].GPA \in 0..100
                    /\ WorkingTable.rows[i].GPA = csv[i].G3 * 5
          /\ \A i, j \in RowIndices(csv) :
                csv[i].G3 <= csv[j].G3 => data.rows[i].GPA <= data.rows[j].GPA
    /\ pc = "group" =>
          LET picked == RowsAt(csv, IndicesWhere(WorkingTable.rows, selected_gender))
              f == frames[filtered_data].rows
          IN  /\ Len(f) = Len(picked)
              /\ \A k \in RowIndices(f) : f[k].GPA = 5 * picked[k].G3

C9_Witness ==
    /\ pc = "group"
    /\ selected_gender = "Female"
    /\ Len(csv) = 2
    /\ csv[1].G3 = 20 /\ csv[1].sex = "M"
    /\ csv[2].G3 = 7 /\ csv[2].sex = "F"
    /\ frames[filtered_data].rows[1].GPA = 35

----------------------------------------------------------------------------
(* C10 *)

\* The label of a level when 1..5 is cut into three equal bins: 1 and 2 are
\* Low, 3 is Medium, 4 and 5 are High.
C10_FixedRangeLabel(v) ==
    IF 3 * (v - 1) <= 4 THEN "Low" ELSE IF 3 * (v - 1) <= 8 THEN "Medium" ELSE "High"

\* The label of a level when [mn, mx] is cut into three equal bins, right
\* edges included; a range of one value puts it in the middle bin.
C10_RangeLabel(v, mn, mx) ==
    IF mn = mx THEN "Medium"
    ELSE IF 3 * (v - mn) <= mx - mn THEN "Low"
    ELSE IF 3 * (v - mn) <= 2 * (mx - mn) THEN "Medium"
    ELSE "High"

C10_Rank(label) == IndexOf(ConsumptionLabels, label)

C10_Levels(df) == Range(Column(df.rows, "consumptionlevel"))

C10_Binned(sel) == WithConsumptionLevel(FilterRows(WorkingTable, sel))

====
